---- MODULE Spec2Model ----
(***************************************************************************)
(* Model of src/main.py: the Google Sheets MCP server.                     *)
(*                                                                         *)
(* State: the two service handles of GoogleSheetsServer, the files and     *)
(* the environment variable the Authenticator reads, and the result of     *)
(* the last handler the host invoked.  Every handler is one atomic action: *)
(* the coroutines contain no suspension point (the Google client calls are *)
(* blocking), so a handler runs to completion once it is started.          *)
(***************************************************************************)
EXTENDS Integers, Sequences, FiniteSets, TLC

VARIABLES
    sheets_service,   \* self.sheets_service: "null", "oauth" or "apikey"
    drive_service,    \* self.drive_service: "null" or "oauth"
    token,            \* token.json: "absent", "valid", "refreshable", "dead"
    credentials,      \* os.path.exists('credentials.json')
    api_key,          \* os.getenv("GOOGLE_SHEETS_API_KEY") is set
    pc,               \* "start" before main()'s pre-authentication, then "serving"
    inbox,            \* a request the host has sent and the server has not read
    call,             \* the last request and what happened while serving it
    resp,             \* what the last handler gave back to the host
    loop              \* the event loop: the handler tasks and the one that has control

vars == <<sheets_service, drive_service, token, credentials, api_key, pc, inbox, call, resp,
          loop>>

(***************************************************************************)
(* Bounds                                                                  *)
(***************************************************************************)
MaxRows == 2      \* rows of a sheet returned by the values endpoint
MaxCols == 2      \* cells of one row
MaxFiles == 1     \* files returned by the file-listing endpoint
MaxTasks == 2     \* tool calls the host has delivered and not yet got a response to

(***************************************************************************)
(* Python values                                                           *)
(***************************************************************************)
\* None where a string is expected (arguments.get(k) of a missing key).
PyNone == "None"

\* The characters of a string literal, for the strings the model inspects.
Alice == <<"A", "l", "i", "c", "e">>
bob == <<"b", "o", "b">>

UpperCase == <<"A","B","C","D","E","F","G","H","I","J","K","L","M",
               "N","O","P","Q","R","S","T","U","V","W","X","Y","Z">>
LowerCase == <<"a","b","c","d","e","f","g","h","i","j","k","l","m",
               "n","o","p","q","r","s","t","u","v","w","x","y","z">>

\* str.lower() on one character.
LowerChar(c) ==
    IF \E i \in 1..Len(UpperCase) : UpperCase[i] = c
    THEN LowerCase[CHOOSE i \in 1..Len(UpperCase) : UpperCase[i] = c]
    ELSE c

\* str.lower()
lower(s) == [i \in 1..Len(s) |-> LowerChar(s[i])]

(***************************************************************************)
(* Responses of a handler                                                  *)
(***************************************************************************)
\* [types.TextContent(type="text", text=json.dumps(obj, indent=2))]
JsonContent(obj) == [kind |-> "json", body |-> obj]
\* [types.TextContent(type="text", text=s)] with s not a JSON document
TextContent(s) == [kind |-> "text", text |-> s]
\* an exception leaving the function
Raise(m) == [kind |-> "raise", exc |-> m]
\* the list[Tool] of handle_list_tools, by tool name
ToolList(names) == [kind |-> "tools", tools |-> names]
NoResp == [kind |-> "none"]

(***************************************************************************)
(* Authenticator: authenticate_google_services                             *)
(***************************************************************************)
NoSourceMsg ==
    "Either credentials.json file or GOOGLE_SHEETS_API_KEY environment variable is required"
RefreshErrorMsg == "RefreshError"
FlowErrorMsg == "FlowError"
BuildErrorMsg == "BuildError"

\* What the external collaborators do during one authentication: the token
\* refresh, the interactive flow and the two build() calls each succeed or
\* raise.  The first exception ends the authentication, so the outcomes with
\* at most one failure cover every run of it.
AllOk == [refreshOk |-> TRUE, flowOk |-> TRUE, sheetsBuildOk |-> TRUE, driveBuildOk |-> TRUE]
AuthOutcomes ==
    {AllOk, [AllOk EXCEPT !.refreshOk = FALSE], [AllOk EXCEPT !.flowOk = FALSE],
     [AllOk EXCEPT !.sheetsBuildOk = FALSE], [AllOk EXCEPT !.driveBuildOk = FALSE]}

NoAuth ==
    [ran |-> FALSE, path |-> "none", build |-> "none", raised |-> FALSE, msg |-> "",
     wrote |-> FALSE, ranFlow |-> FALSE, readKey |-> FALSE, refreshed |-> FALSE]

AuthResult(ss, ds, tok, trace) ==
    [sheets_service |-> ss, drive_service |-> ds, token |-> tok, auth |-> trace]

\* Mutation: the Drive handle is built and assigned before the Sheets handle.
BuildServices_drive_first(ss, ds, tok, o, trace) ==
    IF ~o.driveBuildOk
    THEN AuthResult(ss, ds, tok,
                    [trace EXCEPT !.build = "drive_failed", !.raised = TRUE, !.msg = BuildErrorMsg])
    ELSE IF ~o.sheetsBuildOk
    THEN AuthResult(ss, "oauth", tok,
                    [trace EXCEPT !.build = "sheets_failed", !.raised = TRUE, !.msg = BuildErrorMsg])
    ELSE AuthResult("oauth", "oauth", tok, [trace EXCEPT !.build = "ok"])

\* Lines 77-84: build both services; an exception of either build is re-raised.
BuildServices(ss, ds, tok, o, trace) ==
    IF ~o.sheetsBuildOk
    THEN AuthResult(ss, ds, tok,
                    [trace EXCEPT !.build = "sheets_failed", !.raised = TRUE, !.msg = BuildErrorMsg])
    ELSE IF ~o.driveBuildOk
    THEN AuthResult("oauth", ds, tok,
                    [trace EXCEPT !.build = "drive_failed", !.raised = TRUE, !.msg = BuildErrorMsg])
    ELSE AuthResult("oauth", "oauth", tok, [trace EXCEPT !.build = "ok"])

\* Mutation: the refreshed credential is used but not written to token.json.
RefreshBranch_unsaved(ss, ds, tok, o, trace) ==
    IF o.refreshOk
    THEN BuildServices(ss, ds, tok, o, [trace EXCEPT !.path = "refreshed", !.refreshed = TRUE])
    ELSE AuthResult(ss, ds, tok,
                    [trace EXCEPT !.path = "refresh_failed", !.raised = TRUE, !.msg = RefreshErrorMsg])

\* Lines 55-56 and 73-75: creds.refresh(Request()), then the token is saved.
RefreshBranch(ss, ds, tok, o, trace) ==
    IF o.refreshOk
    THEN BuildServices(ss, ds, "valid", o,
                       [trace EXCEPT !.path = "refreshed", !.refreshed = TRUE, !.wrote = TRUE])
    ELSE AuthResult(ss, ds, tok,
                    [trace EXCEPT !.path = "refresh_failed", !.raised = TRUE, !.msg = RefreshErrorMsg])

\* Mutation: the credential of the interactive flow is not saved.
InteractiveBranch_unsaved(ss, ds, tok, o, trace) ==
    IF o.flowOk
    THEN BuildServices(ss, ds, tok, o,
                       [trace EXCEPT !.path = "interactive", !.ranFlow = TRUE])
    ELSE AuthResult(ss, ds, tok,
                    [trace EXCEPT !.path = "flow_failed", !.ranFlow = TRUE,
                                  !.raised = TRUE, !.msg = FlowErrorMsg])

\* Lines 59-62 and 73-75: the interactive flow, then the token is saved.
InteractiveBranch(ss, ds, tok, o, trace) ==
    IF o.flowOk
    THEN BuildServices(ss, ds, "valid", o,
                       [trace EXCEPT !.path = "interactive", !.ranFlow = TRUE, !.wrote = TRUE])
    ELSE AuthResult(ss, ds, tok,
                    [trace EXCEPT !.path = "flow_failed", !.ranFlow = TRUE,
                                  !.raised = TRUE, !.msg = FlowErrorMsg])

\* Mutation: the primary handle is built whether or not a key is configured.
ApiKeyBranch_unchecked(ss, ds, tok, key, trace) ==
    AuthResult("apikey", ds, tok, [trace EXCEPT !.path = "apikey", !.readKey = TRUE])

\* Lines 64-71: the API key, or ValueError.
ApiKeyBranch(ss, ds, tok, key, trace) ==
    IF key
    THEN AuthResult("apikey", ds, tok, [trace EXCEPT !.path = "apikey", !.readKey = TRUE])
    ELSE AuthResult(ss, ds, tok,
                    [trace EXCEPT !.path = "no_source", !.readKey = TRUE,
                                  !.raised = TRUE, !.msg = NoSourceMsg])

\* Mutation: a configured API key is preferred to the client-secret file.
authenticate_google_services_key_first(ss, ds, tok, cj, key, o) ==
    LET trace == [NoAuth EXCEPT !.ran = TRUE] IN
    IF tok = "valid"
    THEN BuildServices(ss, ds, tok, o, [trace EXCEPT !.path = "cached"])
    ELSE IF tok = "refreshable"
    THEN RefreshBranch(ss, ds, tok, o, trace)
    ELSE IF key
    THEN ApiKeyBranch(ss, ds, tok, key, trace)
    ELSE IF cj
    THEN InteractiveBranch(ss, ds, tok, o, trace)
    ELSE ApiKeyBranch(ss, ds, tok, key, trace)

authenticate_google_services(ss, ds, tok, cj, key, o) ==
    LET trace == [NoAuth EXCEPT !.ran = TRUE] IN
    IF tok = "valid"
    THEN BuildServices(ss, ds, tok, o, [trace EXCEPT !.path = "cached"])
    ELSE IF tok = "refreshable"
    THEN RefreshBranch(ss, ds, tok, o, trace)
    ELSE IF cj
    THEN InteractiveBranch(ss, ds, tok, o, trace)
    ELSE ApiKeyBranch(ss, ds, tok, key, trace)

(***************************************************************************)
(* Capability catalog: handle_list_tools                                   *)
(***************************************************************************)
BaseTools ==
    <<"read_sheet_data", "get_sheet_metadata", "list_sheets", "search_sheet_data",
      "get_range_data">>
DriveTools == <<"list_spreadsheets", "search_spreadsheets_by_name">>

\* Mutation: the two discovery tools are advertised whatever the handle state.
handle_list_tools_ungated(ds) == BaseTools \o DriveTools

handle_list_tools(ds) ==
    IF ds # "null" THEN BaseTools \o DriveTools ELSE BaseTools

(***************************************************************************)
(* Arguments and remote results                                            *)
(***************************************************************************)
\* The arguments parameter: None, or a dict.
NoneArgs == [none |-> TRUE, m |-> [k \in {} |-> PyNone]]
Dict(m) == [none |-> FALSE, m |-> m]

Has(arguments, k) == k \in DOMAIN arguments.m
\* arguments.get(k, d)
Get(arguments, k, d) == IF Has(arguments, k) THEN arguments.m[k] ELSE d

NoneGetMsg == "'NoneType' object has no attribute 'get'"
NoneLowerMsg == "'NoneType' object has no attribute 'lower'"
NoneSpreadsheetsMsg == "'NoneType' object has no attribute 'spreadsheets'"

\* The result of one operation body: its return value or exception, the number
\* of requests it sent to the file-listing and to the sheets endpoints, and the
\* q parameter of the file-listing request (<<>> when none was sent).
OpQuery(r, files, sheets, q) == [r |-> r, files |-> files, sheets |-> sheets, q |-> q]
OpResult(r, files, sheets) == OpQuery(r, files, sheets, <<>>)

ErrorEnvelope(m) == JsonContent([status |-> "error", error |-> m])

MimeQuery == "mimeType='application/vnd.google-apps.spreadsheet'"

(***************************************************************************)
(* Operation set                                                           *)
(***************************************************************************)
DriveUnavailableList ==
    "Drive API not available. OAuth authentication required to list spreadsheets."
DriveUnavailableSearch ==
    "Drive API not available. OAuth authentication required to search spreadsheets."

\* item -> the dictionary of lines 331-338
ListedFile(item) ==
    [id |-> item.id, name |-> item.name, modified_time |-> item.modifiedTime,
     created_time |-> item.createdTime, owners |-> item.owners, shared |-> item.shared]

\* item -> the dictionary of lines 411-417
FoundFile(item) ==
    [id |-> item.id, name |-> item.name, modified_time |-> item.modifiedTime,
     created_time |-> item.createdTime, owners |-> item.owners]

\* Lines 301-360: the body of _list_spreadsheets once the handle check passed.
ListSpreadsheetsBody(arguments, remote) ==
    IF arguments.none
    THEN OpResult(ErrorEnvelope("An error occurred: " \o NoneGetMsg), 0, 0)
    ELSE IF ~remote.ok
    THEN OpQuery(ErrorEnvelope("An error occurred: " \o remote.msg), 1, 0, <<MimeQuery>>)
    ELSE IF remote.files = <<>>
    THEN OpQuery(JsonContent([status |-> "success", message |-> "No spreadsheets found.",
                              count |-> 0, spreadsheets |-> <<>>]), 1, 0, <<MimeQuery>>)
    ELSE OpQuery(JsonContent([status |-> "success", count |-> Len(remote.files),
                              spreadsheets |->
                                  [i \in 1..Len(remote.files) |-> ListedFile(remote.files[i])],
                              next_page_token |-> remote.nextPageToken]), 1, 0, <<MimeQuery>>)

\* Mutation: the handle check of line 292 is dropped.
_list_spreadsheets_unchecked(ds, arguments, remote) == ListSpreadsheetsBody(arguments, remote)

_list_spreadsheets(ds, arguments, remote) ==
    IF ds = "null"
    THEN OpResult(ErrorEnvelope(DriveUnavailableList), 0, 0)
    ELSE ListSpreadsheetsBody(arguments, remote)

\* Lines 379-382: the filter expression, as the sequence of its pieces.
NameQuery(name, exact_match) ==
    IF exact_match
    THEN <<MimeQuery \o " and name='">> \o name \o <<"'">>
    ELSE <<MimeQuery \o " and name contains '">> \o name \o <<"'">>

\* f"{name}" of lines 380, 382 and 404: the characters of str(name).
NameOf(arguments) ==
    IF Has(arguments, "name") THEN arguments.m["name"] ELSE <<"N", "o", "n", "e">>

_search_spreadsheets_by_name(ds, arguments, remote) ==
    IF ds = "null"
    THEN OpResult(ErrorEnvelope(DriveUnavailableSearch), 0, 0)
    ELSE IF arguments.none
    THEN OpResult(ErrorEnvelope("An error occurred: " \o NoneGetMsg), 0, 0)
    ELSE LET name == Get(arguments, "name", PyNone)
             exact_match == Get(arguments, "exact_match", FALSE)
             query == NameQuery(NameOf(arguments), exact_match)
         IN  IF ~remote.ok
             THEN OpQuery(ErrorEnvelope("An error occurred: " \o remote.msg), 1, 0, query)
             ELSE IF remote.files = <<>>
             THEN OpQuery(JsonContent([status |-> "success", search_term |-> name,
                                       exact_match |-> exact_match,
                                       message |-> <<"No spreadsheets found matching '">>
                                                   \o NameOf(arguments) \o <<"'.">>,
                                       matches_found |-> 0, spreadsheets |-> <<>>]),
                          1, 0, query)
             ELSE OpQuery(JsonContent([status |-> "success", search_term |-> name,
                                       exact_match |-> exact_match,
                                       matches_found |-> Len(remote.files),
                                       spreadsheets |->
                                           [i \in 1..Len(remote.files) |->
                                                FoundFile(remote.files[i])],
                                       next_page_token |-> remote.nextPageToken]),
                          1, 0, query)

\* self.sheets_service.spreadsheets()...execute() of the five sheet operations:
\* "none" when the handle is None, "rejected" when the request raises, else "ok".
SheetsRequest(ss, remote) ==
    IF ss = "null" THEN "none" ELSE IF ~remote.ok THEN "rejected" ELSE "ok"

\* result.get('values', [])
ValuesOf(remote) == IF remote.hasValues THEN remote.values ELSE <<>>

\* len(values[0]) if values else 0
ColumnCount(values) == IF values # <<>> THEN Len(values[1]) ELSE 0

\* Mutation: an empty range is reported as an error.
ReadResult_empty_error(spreadsheet_id, range_name, values) ==
    IF values = <<>>
    THEN JsonContent([status |-> "error", error |-> "No data found in the specified range"])
    ELSE JsonContent([status |-> "success", spreadsheet_id |-> spreadsheet_id,
                      range |-> range_name, row_count |-> Len(values),
                      column_count |-> ColumnCount(values), data |-> values])

\* Lines 457-477: the two success Envelopes of _read_sheet_data.
ReadResult(spreadsheet_id, range_name, values) ==
    IF values = <<>>
    THEN JsonContent([status |-> "success",
                      message |-> "No data found in the specified range",
                      data |-> <<>>])
    ELSE JsonContent([status |-> "success", spreadsheet_id |-> spreadsheet_id,
                      range |-> range_name, row_count |-> Len(values),
                      column_count |-> ColumnCount(values), data |-> values])

_read_sheet_data(ss, arguments, remote) ==
    IF arguments.none
    THEN OpResult(Raise(NoneGetMsg), 0, 0)
    ELSE LET spreadsheet_id == Get(arguments, "spreadsheet_id", PyNone)
             range_name == Get(arguments, "range", "Sheet1")
             values == ValuesOf(remote)
         IN  CASE SheetsRequest(ss, remote) = "none" ->
                      OpResult(ErrorEnvelope(NoneSpreadsheetsMsg), 0, 0)
               [] SheetsRequest(ss, remote) = "rejected" ->
                      OpResult(ErrorEnvelope(remote.msg), 0, 1)
               [] OTHER ->
                      OpResult(ReadResult(spreadsheet_id, range_name, values), 0, 1)

\* sheet -> the dictionary of lines 504-510
SheetSummary(sheet) ==
    [sheet_id |-> sheet.sheetId, title |-> sheet.title,
     sheet_type |-> IF sheet.sheetType = PyNone THEN "GRID" ELSE sheet.sheetType,
     row_count |-> sheet.rowCount, column_count |-> sheet.columnCount]

\* sheet -> the dictionary of lines 540-545
SheetEntry(sheet) ==
    [sheet_id |-> sheet.sheetId, title |-> sheet.title, index |-> sheet.index,
     sheet_type |-> IF sheet.sheetType = PyNone THEN "GRID" ELSE sheet.sheetType]

_get_sheet_metadata(ss, arguments, remote) ==
    IF arguments.none
    THEN OpResult(Raise(NoneGetMsg), 0, 0)
    ELSE CASE SheetsRequest(ss, remote) = "none" ->
                  OpResult(ErrorEnvelope(NoneSpreadsheetsMsg), 0, 0)
           [] SheetsRequest(ss, remote) = "rejected" ->
                  OpResult(ErrorEnvelope(remote.msg), 0, 1)
           [] OTHER ->
                  OpResult(JsonContent(
                      [status |-> "success", title |-> remote.meta.title,
                       locale |-> remote.meta.locale, time_zone |-> remote.meta.timeZone,
                       sheet_count |-> Len(remote.meta.sheets),
                       sheets |-> [i \in 1..Len(remote.meta.sheets) |->
                                       SheetSummary(remote.meta.sheets[i])]]), 0, 1)

_list_sheets(ss, arguments, remote) ==
    IF arguments.none
    THEN OpResult(Raise(NoneGetMsg), 0, 0)
    ELSE LET spreadsheet_id == Get(arguments, "spreadsheet_id", PyNone)
         IN  CASE SheetsRequest(ss, remote) = "none" ->
                      OpResult(ErrorEnvelope(NoneSpreadsheetsMsg), 0, 0)
               [] SheetsRequest(ss, remote) = "rejected" ->
                      OpResult(ErrorEnvelope(remote.msg), 0, 1)
               [] OTHER ->
                      OpResult(JsonContent(
                          [status |-> "success", spreadsheet_id |-> spreadsheet_id,
                           sheet_count |-> Len(remote.meta.sheets),
                           sheets |-> [i \in 1..Len(remote.meta.sheets) |->
                                           SheetEntry(remote.meta.sheets[i])]]), 0, 1)

_get_range_data(ss, arguments, remote) ==
    IF arguments.none
    THEN OpResult(Raise(NoneGetMsg), 0, 0)
    ELSE LET spreadsheet_id == Get(arguments, "spreadsheet_id", PyNone)
             range_name == Get(arguments, "range", PyNone)
             value_render_option == Get(arguments, "value_render_option", "FORMATTED_VALUE")
             values == ValuesOf(remote)
         IN  CASE SheetsRequest(ss, remote) = "none" ->
                      OpResult(ErrorEnvelope(NoneSpreadsheetsMsg), 0, 0)
               [] SheetsRequest(ss, remote) = "rejected" ->
                      OpResult(ErrorEnvelope(remote.msg), 0, 1)
               [] OTHER ->
                      OpResult(JsonContent(
                          [status |-> "success", spreadsheet_id |-> spreadsheet_id,
                           range |-> range_name,
                           value_render_option |-> value_render_option,
                           row_count |-> Len(values),
                           column_count |-> ColumnCount(values), data |-> values]), 0, 1)

\* needle in hay (Python's substring test), trying the offsets i, i+1, ...
RECURSIVE InFrom(_, _, _)
InFrom(needle, hay, i) ==
    IF i + Len(needle) > Len(hay) THEN FALSE
    ELSE IF SubSeq(hay, i + 1, i + Len(needle)) = needle THEN TRUE
    ELSE InFrom(needle, hay, i + 1)

In(needle, hay) == InFrom(needle, hay, 0)

\* Mutation: the search term is compared without lowering it.
CellMatches_cased(search_term, cell) == In(search_term, lower(cell))

\* Line 585: search_term.lower() in str(cell).lower(); the cells of a
\* FORMATTED_VALUE response are strings, on which str() changes nothing.
CellMatches(search_term, cell) == In(lower(search_term), lower(cell))

\* Lines 584-591: the inner loop over enumerate(row), from col_idx on.
RECURSIVE ScanRow(_, _, _, _, _)
ScanRow(search_term, row, row_idx, col_idx, matches) ==
    IF col_idx >= Len(row) THEN matches
    ELSE LET cell == row[col_idx + 1]
         IN  ScanRow(search_term, row, row_idx, col_idx + 1,
                     IF CellMatches(search_term, cell)
                     THEN Append(matches, [row |-> row_idx + 1, column |-> col_idx + 1,
                                           cell_value |-> cell, full_row |-> row])
                     ELSE matches)

\* Lines 583-591: the outer loop over enumerate(values), from row_idx on.
RECURSIVE ScanRows(_, _, _, _)
ScanRows(search_term, values, row_idx, matches) ==
    IF row_idx >= Len(values) THEN matches
    ELSE ScanRows(search_term, values, row_idx + 1,
                  ScanRow(search_term, values[row_idx + 1], row_idx, 0, matches))

\* The loop reaches line 585 at all: some row has a cell.
HasCell(values) == \E i \in 1..Len(values) : values[i] # <<>>

_search_sheet_data(ss, arguments, remote) ==
    IF arguments.none
    THEN OpResult(Raise(NoneGetMsg), 0, 0)
    ELSE LET search_term == Get(arguments, "search_term", PyNone)
             sheet_name == Get(arguments, "sheet_name", "Sheet1")
             values == ValuesOf(remote)
         IN  CASE SheetsRequest(ss, remote) = "none" ->
                      OpResult(ErrorEnvelope(NoneSpreadsheetsMsg), 0, 0)
               [] SheetsRequest(ss, remote) = "rejected" ->
                      OpResult(ErrorEnvelope(remote.msg), 0, 1)
               [] OTHER ->
                      IF ~Has(arguments, "search_term")
                      THEN IF HasCell(values)
                           THEN OpResult(ErrorEnvelope(NoneLowerMsg), 0, 1)
                           ELSE OpResult(JsonContent(
                                    [status |-> "success", search_term |-> search_term,
                                     sheet_name |-> sheet_name, matches_found |-> 0,
                                     matches |-> <<>>]), 0, 1)
                      ELSE LET matches == ScanRows(search_term, values, 0, <<>>)
                           IN  OpResult(JsonContent(
                                   [status |-> "success", search_term |-> search_term,
                                    sheet_name |-> sheet_name,
                                    matches_found |-> Len(matches),
                                    matches |-> matches]), 0, 1)

(***************************************************************************)
(* Dispatcher: handle_call_tool                                            *)
(***************************************************************************)
ToolNames ==
    {"list_spreadsheets", "search_spreadsheets_by_name", "read_sheet_data",
     "get_sheet_metadata", "list_sheets", "search_sheet_data", "get_range_data"}

\* Lines 270-285: the if/elif chain.
Dispatch(ss, ds, name, arguments, remote) ==
    CASE name = "list_spreadsheets" -> _list_spreadsheets(ds, arguments, remote)
      [] name = "search_spreadsheets_by_name" ->
             _search_spreadsheets_by_name(ds, arguments, remote)
      [] name = "read_sheet_data" -> _read_sheet_data(ss, arguments, remote)
      [] name = "get_sheet_metadata" -> _get_sheet_metadata(ss, arguments, remote)
      [] name = "list_sheets" -> _list_sheets(ss, arguments, remote)
      [] name = "search_sheet_data" -> _search_sheet_data(ss, arguments, remote)
      [] name = "get_range_data" -> _get_range_data(ss, arguments, remote)
      [] OTHER -> OpResult(Raise("Unknown tool: " \o name), 0, 0)

\* Lines 269-288: the try block; an exception becomes the text "Error: ...".
TryDispatch(ss, ds, name, arguments, remote) ==
    LET op == Dispatch(ss, ds, name, arguments, remote)
    IN  IF op.r.kind = "raise"
        THEN [op EXCEPT !.r = TextContent("Error: " \o op.r.exc)]
        ELSE op

\* The whole handler: the handles and the token file it leaves, the trace of
\* the authentication it ran, whether an operation body was entered and with
\* which extended handle, the requests sent, and what the host receives.
\* Lines 267-288, given the result a of the authentication step.
AfterAuth(a, name, arguments, remote) ==
    IF a.auth.raised
    THEN [sheets_service |-> a.sheets_service, drive_service |-> a.drive_service,
          token |-> a.token, auth |-> a.auth, dispatched |-> FALSE,
          driveAtOp |-> a.drive_service, files |-> 0, sheets |-> 0, q |-> <<>>,
          resp |-> Raise(a.auth.msg)]
    ELSE LET op == TryDispatch(a.sheets_service, a.drive_service, name, arguments, remote)
         IN  [sheets_service |-> a.sheets_service, drive_service |-> a.drive_service,
              token |-> a.token, auth |-> a.auth, dispatched |-> TRUE,
              driveAtOp |-> a.drive_service, files |-> op.files, sheets |-> op.sheets,
              q |-> op.q, resp |-> op.r]

\* Mutation: the handler drops the primary handle when it returns.
handle_call_tool_forgetful(ss, ds, tok, cj, key, name, arguments, remote, o) ==
    [AfterAuth(IF ss = "null"
               THEN authenticate_google_services(ss, ds, tok, cj, key, o)
               ELSE AuthResult(ss, ds, tok, NoAuth),
               name, arguments, remote)
         EXCEPT !.sheets_service = "null"]

\* Mutation: the handler never authenticates.
handle_call_tool_noauth(ss, ds, tok, cj, key, name, arguments, remote, o) ==
    AfterAuth(AuthResult(ss, ds, tok, NoAuth), name, arguments, remote)

\* Mutation: the handler authenticates while the extended handle is missing.
handle_call_tool_upgrade(ss, ds, tok, cj, key, name, arguments, remote, o) ==
    AfterAuth(IF ds = "null"
              THEN authenticate_google_services(ss, ds, tok, cj, key, o)
              ELSE AuthResult(ss, ds, tok, NoAuth),
              name, arguments, remote)

\* Mutation: the handler authenticates on every call.
handle_call_tool_reauth(ss, ds, tok, cj, key, name, arguments, remote, o) ==
    AfterAuth(authenticate_google_services(ss, ds, tok, cj, key, o),
              name, arguments, remote)

handle_call_tool(ss, ds, tok, cj, key, name, arguments, remote, o) ==
    AfterAuth(IF ss = "null"
              THEN authenticate_google_services(ss, ds, tok, cj, key, o)
              ELSE AuthResult(ss, ds, tok, NoAuth),
              name, arguments, remote)

(***************************************************************************)
(* Inputs: what the host sends and what the remote provider answers        *)
(***************************************************************************)
TokenStates == {"absent", "valid", "refreshable", "dead"}

Cells == {Alice, bob}
Terms == {<<"O", "B">>, <<>>, <<"A", "L">>, <<"l", "i">>}

Rows == UNION {[1..k -> Cells] : k \in 0..MaxCols}
Sheets == UNION {[1..k -> Rows] : k \in 0..MaxRows}

ExampleSheet == <<<<Alice, <<"5">>>>, <<bob, <<"7">>>>>>
SmallSheets == {<<>>, <<<<>>>>, ExampleSheet}

RemoteMsgs == {"HttpError 404", "HttpError 403"}

Sheet1 ==
    [sheetId |-> 0, title |-> "Sheet1", index |-> 0, sheetType |-> PyNone,
     rowCount |-> 1000, columnCount |-> 26]
MetaBudget ==
    [title |-> "Budget", locale |-> "en_US", timeZone |-> "UTC", sheets |-> <<Sheet1>>]
MetaEmpty ==
    [title |-> "Empty", locale |-> "en_US", timeZone |-> "UTC", sheets |-> <<>>]

FileBudget ==
    [id |-> "f1", name |-> "Budget", modifiedTime |-> "t1", createdTime |-> "t0",
     owners |-> <<"ann">>, shared |-> FALSE]
FilePlan ==
    [id |-> "f2", name |-> "Plan", modifiedTime |-> "t2", createdTime |-> "t0",
     owners |-> <<>>, shared |-> TRUE]
FileLists == UNION {[1..k -> {FileBudget, FilePlan}] : k \in 0..MaxFiles}

\* One answer of the provider to whatever request the call sends.
RemoteOk ==
    [ok |-> TRUE, msg |-> "", hasValues |-> TRUE, values |-> ExampleSheet,
     meta |-> MetaBudget, files |-> <<>>, nextPageToken |-> PyNone]
Rejected(m) == [RemoteOk EXCEPT !.ok = FALSE, !.msg = m]
WithValues(v) == [RemoteOk EXCEPT !.values = v]
NoValues == [RemoteOk EXCEPT !.hasValues = FALSE, !.values = <<>>]
WithFiles(f, t) == [RemoteOk EXCEPT !.files = f, !.nextPageToken = t]

Rejections == {Rejected(m) : m \in RemoteMsgs}
ValuesRemotes == Rejections \cup {WithValues(v) : v \in SmallSheets} \cup {NoValues}
MetaRemotes == Rejections \cup {RemoteOk, [RemoteOk EXCEPT !.meta = MetaEmpty]}
FilesRemotes ==
    Rejections \cup {WithFiles(f, IF f = <<>> THEN PyNone ELSE t) :
                         f \in FileLists, t \in {PyNone, "page2"}}

EmptyDict == [k \in {} |-> PyNone]

SearchArgs(t) == Dict([spreadsheet_id |-> "sid", search_term |-> t])

Request(name, arguments, remote) ==
    [name |-> name, arguments |-> arguments, remote |-> remote]
NoRequest == Request("", NoneArgs, RemoteOk)

\* The client library refuses, before anything is sent, a request built with
\* None for a required parameter of the endpoint.
MissingParameter(p) == Rejected("Missing required parameter \"" \o p \o "\"")

\* The requests of the host, each with the answers the provider may give to
\* the remote call that the named operation sends.
Requests ==
    {Request("read_sheet_data", Dict([spreadsheet_id |-> "sid", range |-> "A1:B2"]), r) :
         r \in ValuesRemotes}
    \cup {Request("get_range_data", Dict([spreadsheet_id |-> "sid", range |-> "A1:B2"]), r) :
         r \in ValuesRemotes}
    \cup {Request("search_sheet_data", a, r) :
         a \in {Dict([spreadsheet_id |-> "sid"]), SearchArgs(<<"O", "B">>)},
         r \in ValuesRemotes}
    \cup {Request(n, Dict([spreadsheet_id |-> "sid"]), r) :
         n \in {"get_sheet_metadata", "list_sheets"}, r \in MetaRemotes}
    \cup {Request("list_spreadsheets", a, r) :
         a \in {Dict(EmptyDict), Dict([limit |-> 5])}, r \in FilesRemotes}
    \cup {Request("search_spreadsheets_by_name", a, r) :
         a \in {Dict(EmptyDict), Dict([name |-> <<"P", "l">>]),
                Dict([name |-> <<"'">>, exact_match |-> TRUE])},
         r \in FilesRemotes}
    \cup {Request(n, Dict(EmptyDict), MissingParameter("spreadsheetId")) :
         n \in {"read_sheet_data", "get_sheet_metadata", "list_sheets", "get_range_data"}}
    \cup {Request("search_sheet_data", Dict([search_term |-> <<"O", "B">>]),
                  MissingParameter("spreadsheetId")),
          Request("get_range_data", Dict([spreadsheet_id |-> "sid"]),
                  MissingParameter("range"))}
    \cup {Request(n, NoneArgs, RemoteOk) : n \in ToolNames}
    \cup {Request("delete_sheet", a, RemoteOk) : a \in {NoneArgs, Dict(EmptyDict)}}

\* search_sheet_data requests over every sheet and term within the bounds,
\* and over [["Alice","5"],["bob","7"]].
SearchRequests ==
    {Request("search_sheet_data", SearchArgs(t), WithValues(v)) :
         t \in Terms, v \in Sheets \cup {ExampleSheet}}

(***************************************************************************)
(* The server                                                              *)
(***************************************************************************)
Handles(ss, ds, tok) == [sheets_service |-> ss, drive_service |-> ds, token |-> tok]

NoCall ==
    [op |-> "none", name |-> "", arguments |-> NoneArgs, remote |-> RemoteOk,
     entry |-> Handles("null", "null", "absent"), credentials |-> FALSE,
     auth |-> NoAuth, dispatched |-> FALSE, driveAtOp |-> "null",
     files |-> 0, sheets |-> 0, q |-> <<>>,
     after |-> Handles("null", "null", "absent")]

\* A task of the event loop running handle_call_tool: where it stands, its
\* request, the handles and token it found at line 266, the tasks that were
\* waiting or under way at that moment, the outcome its Authenticator drew,
\* and its response.
NoTask ==
    [pos |-> "none", name |-> "", arguments |-> NoneArgs, remote |-> RemoteOk,
     entry |-> Handles("null", "null", "absent"), queued |-> {}, underway |-> {},
     o |-> AllOk, auth |-> NoAuth, resp |-> NoResp]

TaskIds == 1..MaxTasks

\* No task, and control with the event loop (0).
NoLoop == [running |-> 0, tasks |-> [t \in TaskIds |-> NoTask]]

\* GoogleSheetsServer.__init__, before main() authenticates.
Init ==
    /\ sheets_service = "null"
    /\ drive_service = "null"
    /\ token \in TokenStates
    /\ credentials \in BOOLEAN
    /\ api_key \in BOOLEAN
    /\ pc = "start"
    /\ inbox = NoRequest
    /\ call = NoCall
    /\ resp = NoResp
    /\ loop = NoLoop

\* main(), lines 668-675: the pre-authentication; its exception is logged.
PreAuth ==
    /\ pc = "start"
    /\ \E o \in AuthOutcomes :
         LET a == authenticate_google_services(sheets_service, drive_service, token,
                                               credentials, api_key, o)
         IN  /\ sheets_service' = a.sheets_service
             /\ drive_service' = a.drive_service
             /\ token' = a.token
             /\ call' = [NoCall EXCEPT
                            !.op = "preauth",
                            !.entry = Handles(sheets_service, drive_service, token),
                            !.credentials = credentials,
                            !.auth = a.auth,
                            !.driveAtOp = a.drive_service,
                            !.after = Handles(a.sheets_service, a.drive_service, a.token)]
    /\ pc' = "serving"
    /\ resp' = NoResp
    /\ UNCHANGED <<credentials, api_key, inbox, loop>>

\* A tools/list request.
ListTools ==
    /\ pc = "serving"
    /\ resp' = ToolList(handle_list_tools(drive_service))
    /\ call' = [NoCall EXCEPT
                   !.op = "list_tools",
                   !.entry = Handles(sheets_service, drive_service, token),
                   !.credentials = credentials,
                   !.driveAtOp = drive_service,
                   !.after = Handles(sheets_service, drive_service, token)]
    /\ UNCHANGED <<sheets_service, drive_service, token, credentials, api_key, pc, inbox,
                   loop>>

\* handle_call_tool serving one request, recorded under the label op; o is
\* consulted only when the handler authenticates.
CallToolAs(op, name, arguments, remote) ==
    /\ pc = "serving"
    /\ \E o \in IF sheets_service = "null" THEN AuthOutcomes ELSE {AllOk} :
         LET h == handle_call_tool(sheets_service, drive_service, token, credentials,
                                   api_key, name, arguments, remote, o)
         IN  /\ sheets_service' = h.sheets_service
             /\ drive_service' = h.drive_service
             /\ token' = h.token
             /\ resp' = h.resp
             /\ call' = [op |-> op, name |-> name, arguments |-> arguments,
                         remote |-> remote,
                         entry |-> Handles(sheets_service, drive_service, token),
                         credentials |-> credentials,
                         auth |-> h.auth, dispatched |-> h.dispatched,
                         driveAtOp |-> h.driveAtOp, files |-> h.files,
                         sheets |-> h.sheets, q |-> h.q,
                         after |-> Handles(h.sheets_service, h.drive_service, h.token)]
    /\ UNCHANGED <<credentials, api_key, pc, loop>>

CallTool(name, arguments, remote) == CallToolAs("call_tool", name, arguments, remote)

\* A tools/call request, read and served in one step.
Call ==
    /\ inbox = NoRequest
    /\ \E req \in Requests : CallTool(req.name, req.arguments, req.remote)
    /\ UNCHANGED inbox

\* Outside the server, between two requests: the stored token expires or is
\* removed, the client-secret file appears or disappears.
Environment ==
    /\ pc = "serving"
    /\ token' \in TokenStates
    /\ credentials' \in BOOLEAN
    /\ <<token', credentials'>> # <<token, credentials>>
    /\ call' = NoCall
    /\ resp' = NoResp
    /\ UNCHANGED <<sheets_service, drive_service, api_key, pc, inbox, loop>>

Next == PreAuth \/ ListTools \/ Call \/ Environment

Spec == Init /\ [][Next]_vars

(***************************************************************************)
(* search_sheet_data over every sheet and term within the bounds: one      *)
(* request, waiting in the inbox when the server starts with a valid token *)
(***************************************************************************)
InitSearch ==
    /\ sheets_service = "null"
    /\ drive_service = "null"
    /\ token = "valid"
    /\ credentials = FALSE
    /\ api_key = FALSE
    /\ pc = "start"
    /\ inbox \in SearchRequests
    /\ call = NoCall
    /\ resp = NoResp
    /\ loop = NoLoop

SearchCall ==
    /\ inbox # NoRequest
    /\ CallTool(inbox.name, inbox.arguments, inbox.remote)
    /\ inbox' = NoRequest

NextSearch == PreAuth \/ SearchCall

SpecSearch == InitSearch /\ [][NextSearch]_vars

(***************************************************************************)
(* get_sheet_metadata called twice: the host sends one request, keeps it,  *)
(* and sends it again with nothing happening in between                    *)
(***************************************************************************)
MetaRequests == {req \in Requests : req.name = "get_sheet_metadata"}

FirstCall ==
    /\ inbox = NoRequest
    /\ call.op # "call_again"
    /\ \E req \in MetaRequests :
         /\ CallTool(req.name, req.arguments, req.remote)
         /\ inbox' = req

Repeat ==
    /\ inbox # NoRequest
    /\ CallToolAs("call_again", inbox.name, inbox.arguments, inbox.remote)
    /\ inbox' = NoRequest

NextRepeat == PreAuth \/ FirstCall \/ Repeat

SpecRepeat == Init /\ [][NextRepeat]_vars

(***************************************************************************)
(* handle_call_tool as a task of the event loop.  The host may deliver     *)
(* several calls before the first has been answered; each becomes a task.  *)
(* A task keeps control from one of its steps to the next unless the       *)
(* position it has reached hands control back to the event loop.           *)
(***************************************************************************)
\* Mutation: the authentication and the remote round trip are awaited, so
\* the event loop gets control while a task waits for either of them.
Suspends_on_io(pos) == pos \in {"authenticating", "dispatching"}

\* Whether a task at this position hands control back to the event loop.
\* Line 267 awaits authenticate_google_services and lines 271-283 await an
\* operation, and neither of these coroutines awaits anything: refresh(),
\* run_local_server(), build() and execute() are blocking calls.
Suspends(pos) == FALSE

SerialRequests ==
    {Request("list_sheets", Dict([spreadsheet_id |-> "sid"]), RemoteOk),
     Request("list_spreadsheets", Dict(EmptyDict), WithFiles(<<>>, PyNone)),
     Request("read_sheet_data", Dict([spreadsheet_id |-> "sid", range |-> "A1:B2"]),
             Rejected("HttpError 404"))}

Task(t) == loop.tasks[t]

\* Tasks between line 266 and their return.
InProgress == {t \in TaskIds : Task(t).pos \in {"authenticating", "dispatching"}}
\* Tasks created and not started.
Waiting == {t \in TaskIds : Task(t).pos = "ready"}

HasControl(t) == loop.running \in {0, t}
\* Who has control after task t has reached pos.
Yield(t, pos) == IF pos = "done" \/ Suspends(pos) THEN 0 ELSE t

\* The host delivers a call: a task is created for it.
Deliver ==
    /\ pc = "serving"
    /\ \E t \in TaskIds, req \in SerialRequests :
         /\ Task(t).pos = "none"
         /\ \A u \in TaskIds : u < t => Task(u).pos # "none"
         /\ loop' = [loop EXCEPT !.tasks[t] =
                        [NoTask EXCEPT !.pos = "ready", !.name = req.name,
                                       !.arguments = req.arguments, !.remote = req.remote]]
    /\ UNCHANGED <<sheets_service, drive_service, token, credentials, api_key, pc, inbox,
                   call, resp>>

\* Line 266: the task starts and tests self.sheets_service.
Enter ==
    /\ \E t \in TaskIds :
         /\ HasControl(t)
         /\ Task(t).pos = "ready"
         /\ LET next == IF sheets_service = "null" THEN "authenticating" ELSE "dispatching"
            IN  loop' = [running |-> Yield(t, next),
                         tasks |-> [loop.tasks EXCEPT ![t] =
                             [@ EXCEPT !.pos = next,
                                       !.entry = Handles(sheets_service, drive_service, token),
                                       !.queued = Waiting \ {t},
                                       !.underway = InProgress \ {t}]]]
    /\ UNCHANGED <<sheets_service, drive_service, token, credentials, api_key, pc, inbox,
                   call, resp>>

\* Line 267: authenticate_google_services returns to the task, or raises.
AuthReturn ==
    /\ \E t \in TaskIds, o \in AuthOutcomes :
         /\ HasControl(t)
         /\ Task(t).pos = "authenticating"
         /\ LET a == authenticate_google_services(sheets_service, drive_service, token,
                                                  credentials, api_key, o)
                next == IF a.auth.raised THEN "done" ELSE "dispatching"
            IN  /\ sheets_service' = a.sheets_service
                /\ drive_service' = a.drive_service
                /\ token' = a.token
                /\ loop' = [running |-> Yield(t, next),
                            tasks |-> [loop.tasks EXCEPT ![t] =
                                [@ EXCEPT !.pos = next, !.o = o, !.auth = a.auth,
                                          !.resp = IF a.auth.raised
                                                   THEN Raise(a.auth.msg) ELSE NoResp]]]
    /\ UNCHANGED <<credentials, api_key, pc, inbox, call, resp>>

\* Lines 269-288: the operation returns to the task, and the task ends.
OpReturn ==
    /\ \E t \in TaskIds :
         /\ HasControl(t)
         /\ Task(t).pos = "dispatching"
         /\ LET h == AfterAuth(AuthResult(sheets_service, drive_service, token, Task(t).auth),
                               Task(t).name, Task(t).arguments, Task(t).remote)
            IN  loop' = [running |-> Yield(t, "done"),
                         tasks |-> [loop.tasks EXCEPT ![t] =
                             [@ EXCEPT !.pos = "done", !.resp = h.resp]]]
    /\ UNCHANGED <<sheets_service, drive_service, token, credentials, api_key, pc, inbox,
                   call, resp>>

NextSerial == PreAuth \/ Deliver \/ Enter \/ AuthReturn \/ OpReturn

SpecSerial == Init /\ [][NextSerial]_vars

TypeOK ==
    /\ sheets_service \in {"null", "oauth", "apikey"}
    /\ drive_service \in {"null", "oauth"}
    /\ token \in TokenStates
    /\ credentials \in BOOLEAN
    /\ api_key \in BOOLEAN
    /\ pc \in {"start", "serving"}
    /\ resp.kind \in {"none", "json", "text", "raise", "tools"}

(***************************************************************************)
(* Envelopes                                                               *)
(***************************************************************************)
\* {status: "error", error: <message>} and nothing else
IsErrorEnvelope(r) ==
    /\ r.kind = "json"
    /\ "status" \in DOMAIN r.body
    /\ r.body.status = "error"
    /\ DOMAIN r.body = {"status", "error"}

\* {status: "success", <payload fields>} without an error field
IsSuccessEnvelope(r) ==
    /\ r.kind = "json"
    /\ "status" \in DOMAIN r.body
    /\ r.body.status = "success"
    /\ "error" \notin DOMAIN r.body
    /\ DOMAIN r.body \ {"status"} # {}

IsEnvelope(r) == IsErrorEnvelope(r) \/ IsSuccessEnvelope(r)

Called == call.op = "call_tool"

(***************************************************************************)
(* Claims                                                                  *)
(***************************************************************************)

\* C1: whatever the operation name, the arguments and the authentication
\* state, handle_call_tool hands the host a well-formed Envelope and lets no
\* exception escape.
C1_CallAlwaysReturnsEnvelope ==
    Called => (resp.kind # "raise" /\ IsEnvelope(resp))

\* C2: when handle_call_tool runs the Authenticator because the handles are
\* not established and the Authenticator fails, the call returns an error
\* Envelope and raises nothing.
C2_AuthFailureIsErrorEnvelope ==
    (Called /\ call.entry.sheets_service = "null" /\ call.auth.raised)
        => IsErrorEnvelope(resp)

\* C3: list_tools returns exactly the 5 base descriptors when drive_service
\* is null and exactly 7 when it is not; the 2 extra ones are
\* list_spreadsheets and search_spreadsheets_by_name, present if and only if
\* drive_service is non-null when the list is requested.
C3_ToolListGatedByDrive ==
    resp.kind = "tools" =>
        LET names == {resp.tools[i] : i \in 1..Len(resp.tools)}
            base == {"read_sheet_data", "get_sheet_metadata", "list_sheets",
                     "search_sheet_data", "get_range_data"}
            extra == {"list_spreadsheets", "search_spreadsheets_by_name"}
        IN  /\ drive_service = "null" => (Len(resp.tools) = 5 /\ names = base)
            /\ drive_service # "null" => (Len(resp.tools) = 7 /\ names = base \cup extra)
            /\ (extra \subseteq names) <=> (drive_service # "null")
            /\ (extra \cap names # {}) <=> (drive_service # "null")

\* C3 witness: a tools/list request served while drive_service is set, and
\* answered with 7 descriptors.
C3_Witness ==
    /\ resp.kind = "tools"
    /\ drive_service = "oauth"
    /\ Len(resp.tools) = 7

\* C4: a name outside the seven operation names gives the error Envelope
\* {status: "error", error: "Unknown tool: <name>"}, never an exception.
C4_UnknownToolIsErrorEnvelope ==
    (Called /\ call.name \notin ToolNames)
        => (IsErrorEnvelope(resp) /\ resp.body.error = "Unknown tool: " \o call.name)

\* C5: every response of the seven operations and of every failure path of
\* the dispatcher is an Envelope: status is "error" with an error field and
\* no payload, or "success" with payload and no error field.
C5_EveryDispatchedResponseIsEnvelope ==
    (Called /\ call.dispatched) =>
        /\ resp.kind = "json"
        /\ resp.body.status \in {"success", "error"}
        /\ resp.body.status = "error" <=> "error" \in DOMAIN resp.body
        /\ resp.body.status = "error" => DOMAIN resp.body = {"status", "error"}
        /\ resp.body.status = "success" => DOMAIN resp.body \ {"status", "error"} # {}

\* The required arguments of an operation (the "required" lists of lines 116-259).
RequiredArgs(name) ==
    CASE name = "read_sheet_data" -> {"spreadsheet_id"}
      [] name = "get_sheet_metadata" -> {"spreadsheet_id"}
      [] name = "list_sheets" -> {"spreadsheet_id"}
      [] name = "search_sheet_data" -> {"spreadsheet_id", "search_term"}
      [] name = "get_range_data" -> {"spreadsheet_id", "range"}
      [] name = "search_spreadsheets_by_name" -> {"name"}
      [] OTHER -> {}

\* C6: an operation called without one of its required arguments gives an
\* error Envelope, whatever the provider answers; never a success Envelope
\* and never an exception.
C6_MissingArgumentIsError ==
    (/\ Called
     /\ call.dispatched
     /\ call.name \in ToolNames
     /\ ~call.arguments.none
     /\ \E k \in RequiredArgs(call.name) : ~Has(call.arguments, k))
        => IsErrorEnvelope(resp)

\* C7: whenever the body of list_spreadsheets or search_spreadsheets_by_name
\* runs while drive_service is null, the result is the error Envelope saying
\* that OAuth authorization is required, and no file-listing request is sent.
C7_DiscoveryWithoutDriveIsError ==
    (/\ Called
     /\ call.dispatched
     /\ call.name \in {"list_spreadsheets", "search_spreadsheets_by_name"}
     /\ drive_service = "null")
        => /\ IsErrorEnvelope(resp)
           /\ call.files = 0
           /\ call.name = "list_spreadsheets" =>
                  resp.body.error =
                      "Drive API not available. OAuth authentication required to list spreadsheets."
           /\ call.name = "search_spreadsheets_by_name" =>
                  resp.body.error =
                      "Drive API not available. OAuth authentication required to search spreadsheets."

\* C7 witness: list_spreadsheets served in API-key mode, where the provider
\* would have listed a file.
C7_Witness ==
    /\ Called
    /\ call.name = "list_spreadsheets"
    /\ sheets_service = "apikey"
    /\ drive_service = "null"
    /\ call.remote.ok
    /\ call.remote.files # <<>>
    /\ IsErrorEnvelope(resp)

\* C8: with a stored credential that is expired and has a refresh token, a
\* failed refresh falls through to the next source: the interactive flow
\* when there is a client-secret file, else, with an API key, primary
\* established in API-key mode and extended null.
C8_RefreshFailureFallsThrough ==
    (/\ call.auth.ran
     /\ call.entry.token = "refreshable"
     /\ ~call.auth.refreshed)
        => /\ call.credentials => call.auth.ranFlow
           /\ (~call.credentials /\ api_key) =>
                  (sheets_service = "apikey" /\ drive_service = "null")

\* C9 as stated: with a stored credential that is expired and has a refresh
\* token, a successful refresh is persisted and authentication ends with
\* both handles non-null, without the interactive flow or the API key.
C9_RefreshSuccessGivesBothHandles ==
    (/\ call.auth.ran
     /\ call.entry.token = "refreshable"
     /\ call.auth.refreshed)
        => /\ call.auth.wrote
           /\ token = "valid"
           /\ sheets_service # "null"
           /\ drive_service # "null"
           /\ ~call.auth.ranFlow
           /\ ~call.auth.readKey

\* C9 amended: with a stored credential that is expired and has a refresh
\* token, a successful refresh is persisted, neither the interactive flow
\* nor the API key is used, and authentication ends with both handles
\* non-null unless building a service then raises.
C9_RefreshSuccessPersistsAndBuilds ==
    (/\ call.auth.ran
     /\ call.entry.token = "refreshable"
     /\ call.auth.refreshed)
        => /\ call.auth.wrote
           /\ token = "valid"
           /\ ~call.auth.ranFlow
           /\ ~call.auth.readKey
           /\ ~call.auth.raised => (sheets_service # "null" /\ drive_service # "null")

\* C9 witness: a call that authenticated by a successful refresh and holds
\* both handles.
C9_Witness ==
    /\ Called
    /\ call.auth.ran
    /\ call.entry.token = "refreshable"
    /\ call.auth.refreshed
    /\ token = "valid"
    /\ sheets_service = "oauth"
    /\ drive_service = "oauth"

\* cell contains term as a substring, letters compared without their case.
ContainsIgnoringCase(cell, term) ==
    /\ Len(term) <= Len(cell)
    /\ \E i \in 0..(Len(cell) - Len(term)) :
           \A k \in 1..Len(term) : LowerChar(cell[i + k]) = LowerChar(term[k])

\* C10: search_sheet_data returns one match for every cell that contains
\* search_term case-insensitively and for no other cell; each match has the
\* 1-indexed row and column, the cell value and the full row; the matches
\* are in row-major then column-major order; matches_found is their number;
\* [["Alice","5"],["bob","7"]] with "OB" gives one match at row 2, column 1.
C10_SearchMatchesExactlyContainingCells ==
    (/\ Called
     /\ call.name = "search_sheet_data"
     /\ Has(call.arguments, "search_term")
     /\ IsSuccessEnvelope(resp))
        => LET values == call.remote.values
               term == call.arguments.m["search_term"]
               m == resp.body.matches
           IN  /\ resp.body.matches_found = Len(m)
               /\ \A k \in 1..Len(m) :
                      /\ m[k].row \in 1..Len(values)
                      /\ m[k].column \in 1..Len(values[m[k].row])
                      /\ m[k].cell_value = values[m[k].row][m[k].column]
                      /\ m[k].full_row = values[m[k].row]
                      /\ ContainsIgnoringCase(m[k].cell_value, term)
               /\ \A r \in 1..Len(values) : \A c \in 1..Len(values[r]) :
                      ContainsIgnoringCase(values[r][c], term)
                          => \E k \in 1..Len(m) : m[k].row = r /\ m[k].column = c
               /\ \A k \in 1..Len(m) : \A l \in 1..Len(m) :
                      k < l => \/ m[k].row < m[l].row
                               \/ m[k].row = m[l].row /\ m[k].column < m[l].column
               /\ (values = ExampleSheet /\ term = <<"O", "B">>)
                      => m = <<[row |-> 2, column |-> 1, cell_value |-> bob,
                                full_row |-> <<bob, <<"7">>>>]>>

\* C10 witness: the search for "OB" in [["Alice","5"],["bob","7"]] answered
\* with one match.
C10_Witness ==
    /\ Called
    /\ call.name = "search_sheet_data"
    /\ call.remote.values = ExampleSheet
    /\ call.arguments.m["search_term"] = <<"O", "B">>
    /\ IsSuccessEnvelope(resp)
    /\ resp.body.matches_found = 1

\* C11: read_sheet_data answered by the values endpoint with no rows, the
\* values field absent or an empty list, returns a success Envelope whose
\* data is the empty list.
C11_EmptyRangeIsSuccessWithNoData ==
    (/\ Called
     /\ call.name = "read_sheet_data"
     /\ call.sheets = 1
     /\ call.remote.ok
     /\ (~call.remote.hasValues \/ call.remote.values = <<>>))
    => (IsSuccessEnvelope(resp) /\ resp.body.data = <<>>)

\* read_sheet_data has asked for a range and the answer has no values field
C11_Witness ==
    /\ Called
    /\ call.name = "read_sheet_data"
    /\ call.sheets = 1
    /\ call.remote.ok
    /\ ~call.remote.hasValues
    /\ IsSuccessEnvelope(resp)
    /\ resp.body.data = <<>>

\* C12: get_sheet_metadata called a second time with the arguments and the
\* remote answer of the call before it, nothing having happened between the
\* two calls, returns the response the first call returned.
C12_RepeatedMetadataCallIsIdentical ==
    [][(call'.op = "call_again" /\ call.dispatched) => resp' = resp]_vars

\* the second of two identical get_sheet_metadata calls has returned a
\* success Envelope
C12_Witness ==
    /\ call.op = "call_again"
    /\ call.name = "get_sheet_metadata"
    /\ call.dispatched
    /\ call.entry.sheets_service # "null"
    /\ IsSuccessEnvelope(resp)

\* C13 as stated: whenever the remote provider rejects the request of any of
\* the seven operations with message m, the call returns an error Envelope
\* whose error field is exactly m.
C13_RemoteErrorIsVerbatim ==
    (/\ Called
     /\ call.name \in ToolNames
     /\ call.files + call.sheets = 1
     /\ ~call.remote.ok)
    => (IsErrorEnvelope(resp) /\ resp.body.error = call.remote.msg)

\* The characters of s from position i on can stand inside a quoted literal
\* of the filter language: a backslash is followed by the character it
\* escapes and a single quote appears only after a backslash.
RECURSIVE EscapedFrom(_, _)
EscapedFrom(s, i) ==
    IF i > Len(s) THEN TRUE
    ELSE IF s[i] = "\\" THEN i + 1 <= Len(s) /\ EscapedFrom(s, i + 2)
    ELSE IF s[i] = "'" THEN FALSE
    ELSE EscapedFrom(s, i + 1)

\* C14: in the filter query search_spreadsheets_by_name sends to the file
\* listing endpoint, the name stands between the opening and the closing
\* quote in escaped form only, so that it cannot end the quoted literal.
C14_NameIsEscapedInQuery ==
    (/\ Called
     /\ call.name = "search_spreadsheets_by_name"
     /\ call.files = 1)
    => /\ Len(call.q) >= 2
       /\ call.q[Len(call.q)] = "'"
       /\ EscapedFrom(SubSeq(call.q, 2, Len(call.q) - 1), 1)

\* C15: an authentication that takes one of the OAuth paths either installs
\* both handles or leaves both handles as they were before the attempt; in
\* particular a newly built primary handle without an extended handle is
\* never left behind by a failed build.
C15_HandlePairReplacedAtomically ==
    (/\ call.auth.ran
     /\ call.auth.path \in {"cached", "refreshed", "interactive"})
    => \/ (sheets_service = "oauth" /\ drive_service = "oauth")
       \/ (/\ sheets_service = call.entry.sheets_service
           /\ drive_service = call.entry.drive_service)

C18_NoSourceFailsAndChangesNothing ==
    (/\ call.auth.ran
     /\ call.entry.token \in {"absent", "dead"}
     /\ ~call.credentials
     /\ ~api_key)
    => /\ call.auth.raised
       /\ call.auth.msg = NoSourceMsg
       /\ sheets_service = "null"
       /\ drive_service = "null"
       /\ token = call.entry.token
       /\ ~call.auth.wrote

\* a call has tried to authenticate with no token, no client-secret file and
\* no API key, and the attempt has raised
C18_Witness ==
    /\ Called
    /\ call.auth.ran
    /\ call.entry.token = "absent"
    /\ ~call.credentials
    /\ ~api_key
    /\ call.auth.raised
    /\ sheets_service = "null"
    /\ drive_service = "null"
    /\ token = "absent"

\* C19: the Authenticator writes the credential store exactly when it has
\* refreshed the stored credential or obtained a new one from the
\* interactive flow, and then the store holds that new, valid credential;
\* on the cached path, the API-key path, the failure path and after a failed
\* refresh or a failed flow the store is what it was.
C19_StoreWrittenExactlyOnNewCredential ==
    call.auth.ran
    => /\ call.auth.wrote <=> call.auth.path \in {"refreshed", "interactive"}
       /\ (call.auth.path = "refreshed") <=> call.auth.refreshed
       /\ call.auth.wrote => token = "valid"
       /\ ~call.auth.wrote => token = call.entry.token
       /\ call.auth.path \in {"cached", "apikey", "no_source", "refresh_failed", "flow_failed"}
              => token = call.entry.token

\* the interactive flow has run with no stored credential and the store now
\* holds the credential it returned
C19_Witness ==
    /\ call.auth.ran
    /\ call.auth.path = "interactive"
    /\ call.auth.wrote
    /\ call.entry.token = "absent"
    /\ token = "valid"

\* C20: a call of one of the seven operations that finds the primary handle
\* established does not authenticate and leaves the primary handle, the
\* extended handle and the credential store as they were at its entry,
\* whether it returns a success or an error; it sends at most one request,
\* a read, to the remote provider.
C20_OperationsChangeNoServerState ==
    (/\ Called
     /\ call.name \in ToolNames
     /\ call.entry.sheets_service # "null")
    => /\ ~call.auth.ran
       /\ sheets_service = call.entry.sheets_service
       /\ drive_service = call.entry.drive_service
       /\ token = call.entry.token
       /\ call.after = call.entry
       /\ call.files + call.sheets <= 1

\* an operation has returned an error Envelope with both handles
\* established and a refreshable token in the store, and nothing has changed
C20_Witness ==
    /\ Called
    /\ call.name \in ToolNames
    /\ call.entry = Handles("oauth", "oauth", "refreshable")
    /\ IsErrorEnvelope(resp)
    /\ Handles(sheets_service, drive_service, token) = call.entry

\* C21: calls delivered together are processed one after the other. At most
\* one call is between its start and its return, and it has control; no
\* call starts while another is under way, so two authentications never
\* overlap; and every finished call has the response that handle_call_tool,
\* run in one piece on the handles and token the call found at its start,
\* gives for its request.
C21_CallsAreProcessedSerially ==
    /\ Cardinality(InProgress) <= 1
    /\ \A t \in InProgress : loop.running = t
    /\ \A t \in TaskIds : Task(t).underway = {}
    /\ \A t \in TaskIds :
           Task(t).pos = "done"
           => Task(t).resp =
                  handle_call_tool(Task(t).entry.sheets_service, Task(t).entry.drive_service,
                                   Task(t).entry.token, credentials, api_key,
                                   Task(t).name, Task(t).arguments, Task(t).remote,
                                   Task(t).o).resp

\* two calls were delivered while the primary handle was null; the first
\* authenticated and ended while the second was waiting, then the second
\* authenticated and ended
C21_Witness ==
    \E t, u \in TaskIds :
        /\ t # u
        /\ Task(t).pos = "done"
        /\ Task(u).pos = "done"
        /\ u \in Task(t).queued
        /\ Task(t).entry.sheets_service = "null"
        /\ Task(t).auth.ran
        /\ Task(u).entry.sheets_service = "null"
        /\ Task(u).auth.ran

\* C22: in every reachable state the extended handle is set only if the
\* primary handle is set, also in the handles a call found at its entry and
\* left at its end.
C22_ExtendedImpliesPrimary ==
    /\ drive_service # "null" => sheets_service # "null"
    /\ call.entry.drive_service # "null" => call.entry.sheets_service # "null"
    /\ call.after.drive_service # "null" => call.after.sheets_service # "null"

\* a lazy authentication, after the one at startup had failed, has set the
\* extended handle, and the primary handle is set with it
C22_Witness ==
    /\ Called
    /\ call.entry.sheets_service = "null"
    /\ call.auth.ran
    /\ drive_service = "oauth"
    /\ sheets_service = "oauth"

\* C23: from a state in which the primary handle is set, no step of the
\* server (a list_tools or call_tool request, or a change of token.json or
\* credentials.json outside the server) runs the Authenticator or changes
\* either handle, and the number of tools list_tools returns stays the same.
C23_HandlesFrozenOncePrimarySet ==
    [][sheets_service # "null"
       => /\ sheets_service' = sheets_service
          /\ drive_service' = drive_service
          /\ ~call'.auth.ran
          /\ Len(handle_list_tools(drive_service')) = Len(handle_list_tools(drive_service))]_vars

\* a server in API-key mode has served a call while a valid token was in the
\* store, without authenticating, and still has no extended handle
C23_Witness ==
    /\ Called
    /\ call.entry.sheets_service = "apikey"
    /\ call.entry.token = "valid"
    /\ ~call.auth.ran
    /\ sheets_service = "apikey"
    /\ drive_service = "null"
    /\ Len(handle_list_tools(drive_service)) = 5

====
